---------------------------- MODULE Spec2Model ----------------------------
(***************************************************************************)
(* Model of the rule application engine of rules_generator:                *)
(* RuleApplier.apply_rules and its four handlers, under Spec, and the      *)
(* constructor that reads the rules file, under SpecLoad                   *)
(* (src/src/firstbase/rule_applier.py).                                    *)
(*                                                                         *)
(* A DataFrame is a record [nrows, data] where data maps each column name  *)
(* to its sequence of cells.  DataFrames live in a heap `frames` indexed   *)
(* by references, so that copying and aliasing are different things.       *)
(* Numbers are float64 values written as decimal fixed point with three    *)
(* fractional digits (21.0 is 21000); the row pool is chosen so that every *)
(* product and median the model computes is exact in that representation.  *)
(* Regular expressions are modelled by a small algebra of pattern shapes   *)
(* with the semantics Python's re module gives them.                       *)
(***************************************************************************)
EXTENDS Integers, Sequences, FiniteSets, TLC

VARIABLES
    file,       \* the rules file at rules_path, as the constructor finds it
    rules,      \* self.rules: the rule records loaded by the constructor
    frames,     \* heap of DataFrames: reference -> DataFrame
    df,         \* the reference the local name `df` of apply_rules is bound to
    log,        \* the local list `log` of apply_rules
    ri,         \* index of the rule the outer loop is at
    ci,         \* index of the column the inner loop is at
    pc,         \* "idle", "loop", "returned", "raised"; "new" before the
                \* constructor ran, and the exception it raised
    result,     \* what apply_rules returned: <<reference, log>>; <<>> before
    trace       \* history: the (rule, column) pairs visited so far, with outcome

vars == <<file, rules, frames, df, log, ri, ci, pc, result, trace>>

-----------------------------------------------------------------------------
(* Bounds of the model *)

MaxRows == 2
MaxRules == 2

-----------------------------------------------------------------------------
(* Cells *)

NaN == [kind |-> "nan", n |-> 0, s |-> ""]
None == [kind |-> "none", n |-> 0, s |-> ""]
Num(n) == [kind |-> "num", n |-> n, s |-> ""]
\* Variant of Str: the texts "True" and "False" are read as booleans
Str_Typed(s) ==
    IF s \in {"True", "False"}
    THEN [kind |-> "bool", n |-> IF s = "True" THEN 1 ELSE 0, s |-> ""]
    ELSE [kind |-> "str", n |-> 0, s |-> s]

Str(s) == [kind |-> "str", n |-> 0, s |-> s]
Bool(b) == [kind |-> "bool", n |-> IF b THEN 1 ELSE 0, s |-> ""]

\* pd.notna / Series.notna
notna(c) == c.kind \notin {"nan", "none"}

Digit(d) == ToString(d)

\* str() of a non-negative float64 with at most three fractional digits
AbsNumText(n) ==
    LET whole == n \div 1000
        d1 == (n % 1000) \div 100
        d2 == (n % 100) \div 10
        d3 == n % 10
    IN  ToString(whole) \o "." \o
        (IF d3 # 0 THEN Digit(d1) \o Digit(d2) \o Digit(d3)
         ELSE IF d2 # 0 THEN Digit(d1) \o Digit(d2)
         ELSE Digit(d1))

NumText(n) == IF n < 0 THEN "-" \o AbsNumText(0 - n) ELSE AbsNumText(n)

\* The text representation of a cell: what Series.astype(str) makes of it
Text(c) ==
    CASE c.kind = "nan" -> "nan"
      [] c.kind = "none" -> "None"
      [] c.kind = "num" -> NumText(c.n)
      [] c.kind = "bool" -> (IF c.n = 1 THEN "True" ELSE "False")
      [] OTHER -> c.s


-----------------------------------------------------------------------------
\* Regular expressions, as Python's re module treats them.  A pattern is
\* one of the shapes
\*   alt:     ^(l1|l2|...)$   one group, the whole text is one of the lits
\*   any:     ^(. *)$         one group, any text
\*   lit:     l               an unanchored literal, no group
\*   invalid: a text re.compile rejects, such as "invalid[regex"
\*   none:    Python's None (the rule record has no pattern)

PatAlt(S) == [kind |-> "alt", lits |-> S]
PatAny == [kind |-> "any", lits |-> {}]
PatLit(l) == [kind |-> "lit", lits |-> {l}]
PatInvalid == [kind |-> "invalid", lits |-> {}]
PatNone == [kind |-> "none", lits |-> {}]

\* The pieces a text of the model may have around a literal
Fragments == {"", "sea", "s"}

\* re.compile(pattern) succeeds; on an invalid text it raises re.error and
\* on None it raises TypeError
Compiles(p) == p.kind \in {"alt", "any", "lit"}

\* re.match(pattern, t): the pattern matches at the start of t
ReMatch(p, t) ==
    CASE p.kind = "alt" -> t \in p.lits
      [] p.kind = "any" -> TRUE
      [] p.kind = "lit" -> \E l \in p.lits : \E b \in Fragments : t = l \o b
      [] OTHER -> FALSE

\* The replacement template expanded for one match: "\1" is group 1
Expand(repl, group1) == IF repl = "\\1" THEN group1 ELSE repl

\* re.sub(pattern, repl, t): every match replaced
ReSub(p, repl, t) ==
    CASE p.kind = "alt" -> IF t \in p.lits THEN Expand(repl, t) ELSE t
      [] p.kind = "any" -> Expand(repl, t)
      [] p.kind = "lit" ->
            LET l == CHOOSE x \in p.lits : TRUE
                hits == {ab \in Fragments \X Fragments : t = ab[1] \o l \o ab[2]}
            IN  IF hits = {} THEN t
                ELSE LET ab == CHOOSE x \in hits : TRUE
                     IN  ab[1] \o repl \o ab[2]
      [] OTHER -> t

-----------------------------------------------------------------------------
(* Rule records: the dictionaries of the "rules" list of the rules file.   *)
(* A key the JSON record lacks is a key the TLA+ record lacks.             *)

\* dict.get(key, default)
Get(rule, key, default) == IF key \in DOMAIN rule THEN rule[key] ELSE default

\* str.lower() on the rule_type texts of the model
Lower(s) ==
    CASE s = "IMPUTATION" -> "imputation"
      [] s = "Anomaly_Flag" -> "anomaly_flag"
      [] OTHER -> s

\* The members of the RuleType enumeration
ANOMALY_FLAG == "anomaly_flag"
IMPUTATION == "imputation"
TRANSFORMATION == "transformation"
FORMAT_STRING == "format_string"
RuleType == {ANOMALY_FLAG, IMPUTATION, TRANSFORMATION, FORMAT_STRING}

\* The reserved texts the handlers compare against
TotalSpentMismatch == "flag_total_spent_mismatch"
ProductSentinel == "[Price Per Unit] * [Quantity]"
MedianSentinel == "<MEDIAN_FROM_GROUP_OR_GLOBAL>"

\* Variant of FlagCol: the flags are written into the target column itself
FlagCol_Target(col, rule_id) == col

\* f"{col}_flag_{rule_id}"
FlagCol(col, rule_id) == col \o "_flag_" \o rule_id

-----------------------------------------------------------------------------
(* The DataFrames the caller may pass: up to MaxRows rows of a fixture in  *)
(* the shape of the test fixture sample_df, on one of a few column sets.   *)

Category == "Category"
Item == "Item"
PricePerUnit == "Price Per Unit"
Quantity == "Quantity"
TotalSpent == "Total Spent"

AllColumns == {Category, Item, PricePerUnit, Quantity, TotalSpent}

Row(cat, item, price, qty, total) ==
    [c \in AllColumns |->
        CASE c = Category -> cat
          [] c = Item -> item
          [] c = PricePerUnit -> price
          [] c = Quantity -> qty
          [] OTHER -> total]

FixtureRows ==
    << Row(Str("food"), Str("A"), Num(10500), Num(2000), Num(21000)),
       Row(Str("seafood"), Str("B"), Num(20000), Num(1000), Num(25000)),
       Row(Str("Food"), None, Num(15753), Num(3000), NaN),
       Row(Str("food"), Str("C"), Num(12000), NaN, NaN),
       Row(NaN, Str("A"), NaN, Num(2000), Num(30000)) >>

ColumnSets == { {}, {Category, TotalSpent}, AllColumns }

\* The runs of at most MaxRows consecutive rows of the fixture
RowSelections ==
    { [i \in 1..k |-> first + i - 1] :
        k \in 0..MaxRows, first \in 1..Len(FixtureRows) }
    \cap Seq(1..Len(FixtureRows))

MakeFrame(sel, cols) ==
    [nrows |-> Len(sel),
     data |-> [c \in cols |-> [i \in 1..Len(sel) |-> FixtureRows[sel[i]][c]]]]

Frames == { MakeFrame(sel, cols) : sel \in RowSelections, cols \in ColumnSets }

\* df.columns
Columns(frame) == DOMAIN frame.data

\* pd.DataFrame.empty: some axis has length zero
IsEmpty(frame) == frame.nrows = 0 \/ Columns(frame) = {}

-----------------------------------------------------------------------------
(* The rule records the rules file may hold: rules in the shape of the     *)
(* test fixture sample_rules, and rules for the cases the handlers and     *)
(* the dispatch distinguish.                                               *)

\* ^(nan|NULL|NaN|None|\s*)$ on the texts of the model
PatMissing == PatAlt({"nan", "NULL", "NaN", "None", ""})

\* ^(NULL|None|\s*)$ on the texts of the model: the text of NaN is left out
PatBlank == PatAlt({"NULL", "None", ""})

\* ^25\.0$ on the texts of the model: a value taken as a placeholder
PatPlaceholder == PatAlt({"25.0"})

\* ^(\d+\.\d{3,})$ on the texts of the model
PatThreeDecimals == PatAlt({"15.753", "47.259"})

RuleCatalogue ==
    { [rule_id |-> "normalize_category", rule_type |-> "transformation",
       pattern |-> PatAny, replacement |-> "\\1", columns |-> <<Category>>,
       description |-> "Normalize Category"],
      [rule_id |-> "fix_food", pattern |-> PatLit("food"),
       replacement |-> "Food", columns |-> <<"Ghost", Category>>],
      [rule_id |-> "bad_regex", rule_type |-> "transformation",
       pattern |-> PatInvalid, replacement |-> "x", columns |-> <<Category>>],
      [rule_id |-> "flag_missing_item", rule_type |-> "anomaly_flag",
       pattern |-> PatMissing, replacement |-> "[MISSING_ITEM]",
       flag_on_match |-> TRUE, columns |-> <<Item>>,
       description |-> "Flag missing Item values"],
      [rule_id |-> "flag_not_food", rule_type |-> "Anomaly_Flag",
       pattern |-> PatLit("food"), replacement |-> "",
       columns |-> <<Category, "Ghost">>],
      [rule_id |-> TotalSpentMismatch, rule_type |-> "anomaly_flag",
       pattern |-> PatMissing, replacement |-> "", flag_on_match |-> TRUE,
       columns |-> <<TotalSpent, Quantity>>],
      [rule_id |-> "impute_total_spent", rule_type |-> "imputation",
       pattern |-> PatMissing, replacement |-> ProductSentinel,
       columns |-> <<TotalSpent>>],
      [rule_id |-> "impute_median", rule_type |-> "imputation",
       pattern |-> PatMissing, replacement |-> MedianSentinel,
       columns |-> <<TotalSpent>>],
      [rule_id |-> "impute_blank", rule_type |-> "imputation",
       pattern |-> PatBlank, replacement |-> MedianSentinel,
       columns |-> <<TotalSpent>>],
      [rule_id |-> "impute_placeholder", rule_type |-> "imputation",
       pattern |-> PatPlaceholder, replacement |-> MedianSentinel,
       columns |-> <<TotalSpent>>],
      [rule_id |-> "impute_item", rule_type |-> "IMPUTATION",
       pattern |-> PatMissing, replacement |-> "False", columns |-> <<Item>>],
      [rule_id |-> "round_price", rule_type |-> "format_string",
       pattern |-> PatThreeDecimals, replacement |-> "%.2f",
       columns |-> <<PricePerUnit, Category>>],
      [rule_id |-> "format_food", rule_type |-> "format_string",
       pattern |-> PatLit("food"), replacement |-> "Food",
       columns |-> <<Category>>],
      [rule_id |-> "format_plain", rule_type |-> "format_string",
       replacement |-> "money", columns |-> <<TotalSpent>>],
      [rule_id |-> "dedupe_rows", rule_type |-> "deduplicate",
       pattern |-> PatAny, replacement |-> "", columns |-> <<Category, Item>>],
      [rule_id |-> "no_columns", rule_type |-> "transformation",
       pattern |-> PatAny, replacement |-> ""],
      [rule_id |-> "flag_to_text", rule_type |-> "transformation",
       pattern |-> PatAlt({"True"}), replacement |-> "missing",
       columns |-> <<FlagCol(Item, "flag_missing_item")>>] }

\* The rule lists of length at most MaxRules
RuleLists == UNION { [1..k -> RuleCatalogue] : k \in 0..MaxRules }

\* Records a rules file may hold besides: one without rule_id, and one
\* whose columns list is empty (no_columns above has no columns key)
OtherRecords ==
    { [rule_type |-> "transformation", pattern |-> PatLit("food"),
       replacement |-> "Food", columns |-> <<Category>>],
      [rule_id |-> "empty_columns", rule_type |-> "transformation",
       pattern |-> PatAny, replacement |-> "", columns |-> <<>>] }

\* What may be at rules_path: nothing, a file that is not JSON, or a JSON
\* object, with a "rules" list or without
NoFile == [exists |-> FALSE]
NotJson == [exists |-> TRUE, json |-> FALSE]
JsonFile(doc) == [exists |-> TRUE, json |-> TRUE, doc |-> doc]

Metadata == [total_rules |-> 5, description |-> "Test rules"]

Files ==
    {NoFile, NotJson, JsonFile([metadata |-> Metadata])}
    \cup { JsonFile([metadata |-> Metadata, rules |-> l]) :
            l \in UNION { [1..k -> RuleCatalogue \cup OtherRecords] :
                            k \in 0..MaxRules } }

-----------------------------------------------------------------------------
(* Column-wise operations of pandas on the cells of the model *)

Rows(frame) == 1..frame.nrows

\* Variant of SetColumn: the DataFrame is cut down to the column assigned
SetColumn_Only(frame, col, cells) ==
    [frame EXCEPT !.data = [c \in {col} |-> cells]]

\* df[col] = cells: the column is replaced, or added when it is new
SetColumn(frame, col, cells) ==
    [frame EXCEPT !.data =
        [c \in (DOMAIN frame.data) \cup {col} |->
            IF c = col THEN cells ELSE frame.data[c]]]

\* Variant of MatchMask: the match is made on the cell itself, so that a
\* missing value matches nothing (the astype(str) is left out)
MatchMask_SkipMissing(frame, col, pattern) ==
    [i \in Rows(frame) |->
        notna(frame.data[col][i]) /\ ReMatch(pattern, Text(frame.data[col][i]))]

\* df[col].astype(str).str.match(pattern, na=False)
MatchMask(frame, col, pattern) ==
    [i \in Rows(frame) |-> ReMatch(pattern, Text(frame.data[col][i]))]

\* Variant of MaskSum: the size of the mask, len(mask)
MaskSum_Size(mask) == Cardinality(DOMAIN mask)

\* int(mask.sum())
MaskSum(mask) == Cardinality({i \in DOMAIN mask : mask[i]})

\* The float64 value of a numeric cell (True is 1.0, False is 0.0)
Val(c) == IF c.kind = "bool" THEN c.n * 1000 ELSE c.n

\* An element-wise arithmetic operation raises TypeError where both cells
\* are present and one of them is text
ArithRaises(a, b) == notna(a) /\ notna(b) /\ (a.kind = "str" \/ b.kind = "str")

\* Variant of Mul: the product is cut to two fractional digits
Mul_Cents(a, b) ==
    IF notna(a) /\ notna(b)
    THEN Num((((Val(a) * Val(b)) \div 1000) \div 10) * 10) ELSE NaN

\* a * b, missing where an operand is missing
Mul(a, b) ==
    IF notna(a) /\ notna(b) THEN Num((Val(a) * Val(b)) \div 1000) ELSE NaN

\* a - b, missing where an operand is missing
Minus(a, b) == IF notna(a) /\ notna(b) THEN Num(Val(a) - Val(b)) ELSE NaN

\* n rounded to a multiple of unit, ties to the even multiple
RoundHalfEven(n, unit) ==
    LET q == n \div unit
        r == n % unit
    IN  IF 2 * r < unit THEN q * unit
        ELSE IF 2 * r > unit THEN (q + 1) * unit
        ELSE IF q % 2 = 0 THEN q * unit
        ELSE (q + 1) * unit

\* Series.round(2)
Round2(c) == IF notna(c) THEN Num(RoundHalfEven(c.n, 10)) ELSE NaN

\* Series.abs()
Abs(c) == IF notna(c) /\ c.n < 0 THEN Num(0 - c.n) ELSE c

\* Series.gt(t): a comparison with a missing value is False
Gt(c, t) == notna(c) /\ c.n > t

\* tol = 0.01
tol == 10

-----------------------------------------------------------------------------
(* The handlers.  Each is given the working DataFrame and the log and      *)
(* yields [raised, frame, log]: whether an exception left the handler,     *)
(* and the DataFrame and the log as the handler left them.  Reading a      *)
(* column the DataFrame does not have raises KeyError; compiling a         *)
(* pattern that is invalid or None raises re.error or TypeError.           *)

\* RuleApplier._apply_anomaly_flag
_apply_anomaly_flag(frame, col, pattern, rule_id, description, reasoning, flag_on_match, lg) ==
    LET flag_col == FlagCol(col, rule_id)
        special == rule_id = TotalSpentMismatch
        \* df["Price Per Unit"], df["Quantity"], df[col]: KeyError when absent
        keyError == ~({PricePerUnit, Quantity, col} \subseteq Columns(frame))
        price == frame.data[PricePerUnit]
        qty == frame.data[Quantity]
        expected == [i \in Rows(frame) |-> Round2(Mul(price[i], qty[i]))]
        typeError ==
            \E i \in Rows(frame) :
                \/ ArithRaises(price[i], qty[i])
                \/ ArithRaises(frame.data[col][i], expected[i])
        match_mask == MatchMask(frame, col, pattern)
        mask_invalid ==
            IF special
            THEN [i \in Rows(frame) |->
                    Gt(Abs(Minus(frame.data[col][i], expected[i])), tol)]
            ELSE IF flag_on_match THEN match_mask
            ELSE [i \in Rows(frame) |-> ~match_mask[i]]
        raised ==
            IF special THEN keyError \/ typeError
            ELSE col \notin Columns(frame) \/ ~Compiles(pattern)
    IN  IF raised THEN [raised |-> TRUE, frame |-> frame, log |-> lg]
        ELSE [raised |-> FALSE,
              frame |-> SetColumn(frame, flag_col,
                            [i \in Rows(frame) |-> Bool(mask_invalid[i])]),
              log |-> Append(lg,
                        [rule_id |-> rule_id, type |-> "anomaly_flag",
                         column |-> col,
                         flagged_count |-> MaskSum(mask_invalid),
                         description |-> description,
                         reasoning |-> reasoning])]

\* The k-th smallest of the values vals[i], i in idx
KthSmallest(vals, idx, k) ==
    LET rank(i) ==
            Cardinality({j \in idx :
                vals[j] < vals[i] \/ (vals[j] = vals[i] /\ j < i)}) + 1
    IN  vals[CHOOSE i \in idx : rank(i) = k]

\* Series.median() of the cells at the rows idx: missing values are left
\* out, and the median of nothing is missing.  The mean of the two middle
\* values is cut to three fractional digits.
Median(cells, idx) ==
    LET present == {i \in idx : notna(cells[i])}
        vals == [i \in present |-> Val(cells[i])]
        k == Cardinality(present)
    IN  IF k = 0 THEN NaN
        ELSE IF k % 2 = 1 THEN Num(KthSmallest(vals, present, (k + 1) \div 2))
        ELSE Num((KthSmallest(vals, present, k \div 2)
                  + KthSmallest(vals, present, k \div 2 + 1)) \div 2)

\* A median of a column that holds text raises TypeError
MedianRaises(cells) == \E i \in DOMAIN cells : cells[i].kind = "str"

\* RuleApplier._apply_imputation.  `inplace` says whether the chained
\* df[col].fillna(..., inplace=True) reaches the DataFrame: it does when
\* df[col] is a view of it and does not under copy-on-write.
_apply_imputation(frame, col, pattern, replacement, rule_id, description, reasoning, lg, inplace) ==
    LET cells == frame.data[col]
        mask_missing == MatchMask(frame, col, pattern)
        entry == [rule_id |-> rule_id, type |-> "imputation", column |-> col,
                  imputed_count |-> MaskSum(mask_missing),
                  description |-> description, reasoning |-> reasoning]
        done(f) == [raised |-> FALSE, frame |-> f, log |-> Append(lg, entry)]
        fail(f) == [raised |-> TRUE, frame |-> f, log |-> lg]
    IN  IF col \notin Columns(frame) \/ ~Compiles(pattern) THEN fail(frame)
        ELSE IF replacement = ProductSentinel THEN
            IF ~({PricePerUnit, Quantity} \subseteq Columns(frame))
            THEN fail(frame)
            ELSE
                LET price == frame.data[PricePerUnit]
                    qty == frame.data[Quantity]
                    valid == [i \in Rows(frame) |->
                                notna(price[i]) /\ notna(qty[i])
                                /\ mask_missing[i]]
                IN  IF \E i \in Rows(frame) :
                            valid[i] /\ ArithRaises(price[i], qty[i])
                    THEN fail(frame)
                    ELSE done(SetColumn(frame, col,
                            [i \in Rows(frame) |->
                                IF valid[i] THEN Mul(price[i], qty[i])
                                ELSE cells[i]]))
        ELSE IF replacement = MedianSentinel THEN
            IF MedianRaises(cells) THEN fail(frame)
            ELSE
                LET item == frame.data[Item]
                    \* df.groupby("Item")[col].median(), looked up by key
                    medians(key) ==
                        Median(cells, {j \in Rows(frame) : item[j] = key})
                    grouped ==
                        IF Item \in Columns(frame)
                        THEN [i \in Rows(frame) |->
                                IF ~mask_missing[i] THEN cells[i]
                                ELSE IF notna(item[i]) THEN medians(item[i])
                                ELSE NaN]
                        ELSE cells
                    global == Median(grouped, Rows(frame))
                    filled ==
                        [i \in Rows(frame) |->
                            IF notna(grouped[i]) THEN grouped[i] ELSE global]
                IN  done(SetColumn(frame, col,
                            IF inplace THEN filled ELSE grouped))
        ELSE done(SetColumn(frame, col,
                    [i \in Rows(frame) |->
                        IF mask_missing[i] THEN Str(replacement)
                        ELSE cells[i]]))

\* The replacement texts of the model that contain "%"
PercentFormats == {"%.2f"}

\* "%" in replacement
HasPercent(replacement) == replacement \in PercentFormats

\* The numbers whose text float() may meet in a text cell
KnownNumbers ==
    {FixtureRows[r][c].n : r \in DOMAIN FixtureRows,
        c \in {PricePerUnit, Quantity, TotalSpent}}

\* float(x) raises ValueError on a text that is no number
FloatRaises(c) ==
    c.kind = "str" /\ c.s \notin ({"nan", "NaN"} \cup {NumText(n) : n \in KnownNumbers})

\* float(x) of a present cell
Float(c) ==
    IF c.kind = "str"
    THEN IF c.s \in {"nan", "NaN"} THEN NaN
         ELSE Num(CHOOSE n \in KnownNumbers : NumText(n) = c.s)
    ELSE Num(Val(c))

\* float("%.2f" % v)
FormatFloat(replacement, v) == Round2(v)

\* Variant of _apply_format_string: there is no try block, and what the
\* formatting raises leaves the handler
_apply_format_string_uncaught(frame, col, pattern, replacement, rule_id, description, reasoning, lg) ==
    LET cells == frame.data[col]
        fails ==
            IF col \notin Columns(frame) THEN TRUE
            ELSE IF HasPercent(replacement)
            THEN \E i \in Rows(frame) : notna(cells[i]) /\ FloatRaises(cells[i])
            ELSE IF pattern.kind # "none" THEN ~Compiles(pattern)
            ELSE frame.nrows > 0
        formatted ==
            IF HasPercent(replacement)
            THEN [i \in Rows(frame) |->
                    IF notna(cells[i])
                    THEN FormatFloat(replacement, Float(cells[i]))
                    ELSE cells[i]]
            ELSE IF pattern.kind # "none"
            THEN [i \in Rows(frame) |->
                    Str(ReSub(pattern, replacement, Text(cells[i])))]
            ELSE cells
    IN  IF fails THEN [raised |-> TRUE, frame |-> frame, log |-> lg]
        ELSE [raised |-> FALSE,
              frame |-> SetColumn(frame, col, formatted),
              log |-> Append(lg,
                        [rule_id |-> rule_id, type |-> "format_string",
                         column |-> col, description |-> description,
                         reasoning |-> reasoning])]

\* Variant of _apply_format_string: under "%" each value is formatted
\* under a try of its own, and a value float() does not take is left as
\* it is while the others are formatted
_apply_format_string_pervalue(frame, col, pattern, replacement, rule_id, description, reasoning, lg) ==
    LET cells == frame.data[col]
        caught ==
            IF col \notin Columns(frame) THEN TRUE
            ELSE IF HasPercent(replacement) THEN FALSE
            ELSE IF pattern.kind # "none" THEN ~Compiles(pattern)
            ELSE frame.nrows > 0
        formatted ==
            IF HasPercent(replacement)
            THEN [i \in Rows(frame) |->
                    IF notna(cells[i]) /\ ~FloatRaises(cells[i])
                    THEN FormatFloat(replacement, Float(cells[i]))
                    ELSE cells[i]]
            ELSE IF pattern.kind # "none"
            THEN [i \in Rows(frame) |->
                    Str(ReSub(pattern, replacement, Text(cells[i])))]
            ELSE cells
    IN  [raised |-> FALSE,
         frame |-> IF caught THEN frame ELSE SetColumn(frame, col, formatted),
         log |-> Append(lg,
                    [rule_id |-> rule_id, type |-> "format_string",
                     column |-> col, description |-> description,
                     reasoning |-> reasoning])]

\* RuleApplier._apply_format_string: whatever is raised inside the try
\* block is caught, and the column is assigned only when nothing was.
_apply_format_string(frame, col, pattern, replacement, rule_id, description, reasoning, lg) ==
    LET cells == frame.data[col]
        caught ==
            IF col \notin Columns(frame) THEN TRUE
            ELSE IF HasPercent(replacement)
            THEN \E i \in Rows(frame) : notna(cells[i]) /\ FloatRaises(cells[i])
            ELSE IF pattern.kind # "none" THEN ~Compiles(pattern)
            \* replacement holds no directive: replacement % float(x)
            \* raises TypeError on the first value
            ELSE frame.nrows > 0
        formatted ==
            IF HasPercent(replacement)
            THEN [i \in Rows(frame) |->
                    IF notna(cells[i])
                    THEN FormatFloat(replacement, Float(cells[i]))
                    ELSE cells[i]]
            ELSE IF pattern.kind # "none"
            THEN [i \in Rows(frame) |->
                    Str(ReSub(pattern, replacement, Text(cells[i])))]
            ELSE cells
    IN  [raised |-> FALSE,
         frame |-> IF caught THEN frame ELSE SetColumn(frame, col, formatted),
         log |-> Append(lg,
                    [rule_id |-> rule_id, type |-> "format_string",
                     column |-> col, description |-> description,
                     reasoning |-> reasoning])]

\* Variant of _apply_transformation: the log entry is not appended
_apply_transformation_unlogged(frame, col, pattern, replacement, rule_id, description, reasoning, lg) ==
    IF col \notin Columns(frame) \/ ~Compiles(pattern)
    THEN [raised |-> TRUE, frame |-> frame, log |-> lg]
    ELSE [raised |-> FALSE,
          frame |-> SetColumn(frame, col,
                        [i \in Rows(frame) |->
                            Str(ReSub(pattern, replacement,
                                      Text(frame.data[col][i])))]),
          log |-> lg]

\* Variant of _apply_transformation: an exception is caught and logged as
\* a warning, as _apply_format_string does
_apply_transformation_lenient(frame, col, pattern, replacement, rule_id, description, reasoning, lg) ==
    [raised |-> FALSE,
     frame |-> IF col \notin Columns(frame) \/ ~Compiles(pattern) THEN frame
               ELSE SetColumn(frame, col,
                        [i \in Rows(frame) |->
                            Str(ReSub(pattern, replacement,
                                      Text(frame.data[col][i])))]),
     log |-> Append(lg,
                [rule_id |-> rule_id, type |-> "transformation",
                 column |-> col, description |-> description,
                 reasoning |-> reasoning])]

\* Variant of _apply_transformation: the substitution is made on the
\* column itself (the astype(str) is left out), which leaves a missing
\* value missing
_apply_transformation_skipna(frame, col, pattern, replacement, rule_id, description, reasoning, lg) ==
    IF col \notin Columns(frame) \/ ~Compiles(pattern)
    THEN [raised |-> TRUE, frame |-> frame, log |-> lg]
    ELSE [raised |-> FALSE,
          frame |-> SetColumn(frame, col,
                        [i \in Rows(frame) |->
                            IF notna(frame.data[col][i])
                            THEN Str(ReSub(pattern, replacement,
                                           Text(frame.data[col][i])))
                            ELSE frame.data[col][i]]),
          log |-> Append(lg,
                    [rule_id |-> rule_id, type |-> "transformation",
                     column |-> col, description |-> description,
                     reasoning |-> reasoning])]

\* RuleApplier._apply_transformation
_apply_transformation(frame, col, pattern, replacement, rule_id, description, reasoning, lg) ==
    IF col \notin Columns(frame) \/ ~Compiles(pattern)
    THEN [raised |-> TRUE, frame |-> frame, log |-> lg]
    ELSE [raised |-> FALSE,
          frame |-> SetColumn(frame, col,
                        [i \in Rows(frame) |->
                            Str(ReSub(pattern, replacement,
                                      Text(frame.data[col][i])))]),
          log |-> Append(lg,
                    [rule_id |-> rule_id, type |-> "transformation",
                     column |-> col, description |-> description,
                     reasoning |-> reasoning])]

-----------------------------------------------------------------------------
(* apply_rules *)

Caller == "caller"
Work == "work"

\* Variant of DeepCopy: no copy is made, df stays the caller's DataFrame
DeepCopy_Alias(heap, ref) == [heap |-> heap, ref |-> ref]

\* Variant of DeepCopy: the new DataFrame has the columns but not the rows
DeepCopy_Emptied(heap, ref) ==
    [heap |-> (Work :> [nrows |-> 0,
                        data |-> [c \in Columns(heap[ref]) |-> <<>>]]) @@ heap,
     ref |-> Work]

\* df.copy(deep=True): a new DataFrame with equal columns and cells
DeepCopy(heap, ref) == [heap |-> (Work :> heap[ref]) @@ heap, ref |-> Work]

\* The fields apply_rules reads from the rule the outer loop is at
rule == rules[ri]
rule_type == Lower(Get(rule, "rule_type", "transformation"))
cols == Get(rule, "columns", <<>>)
pattern == Get(rule, "pattern", PatNone)
replacement == rule.replacement
rule_id == rule.rule_id
description == Get(rule, "description", "")
reasoning == Get(rule, "reasoning", "")
flag_on_match == Get(rule, "flag_on_match", FALSE)
col == cols[ci]

\* The loops are at a rule, and at a (rule, column) pair
AtRule == pc = "loop" /\ ri <= Len(rules)
AtPair == AtRule /\ cols # <<>>

\* Variant of ColumnPresent: the column is looked up in the caller's
\* DataFrame instead of the working one
ColumnPresent_Input == col \in Columns(frames[Caller])

\* Variant of ColumnPresent: the check is left out
ColumnPresent_Always == TRUE

\* col in df.columns
ColumnPresent == col \in Columns(frames[df])

\* Variant of NextPair: a skipped or handled pair ends its rule (break
\* instead of continue)
NextPair_Break == <<ri + 1, 1>>

\* The position of the loops after the pair they are at
NextPair == IF ci < Len(cols) THEN <<ri, ci + 1>> ELSE <<ri + 1, 1>>

Visit(outcome) == trace' = Append(trace, [rule |-> ri, col |-> ci, outcome |-> outcome])

Init ==
    /\ rules \in RuleLists
    /\ file = JsonFile([metadata |-> Metadata, rules |-> rules])
    /\ frames \in {(Caller :> f) : f \in Frames}
    /\ df = Caller
    /\ log = <<>>
    /\ ri = 1
    /\ ci = 1
    /\ pc = "idle"
    /\ result = <<>>
    /\ trace = <<>>

\* apply_rules is called with the caller's DataFrame: lines 37-38
Call ==
    /\ pc = "idle"
    /\ LET copy == DeepCopy(frames, df)
       IN  frames' = copy.heap /\ df' = copy.ref
    /\ log' = <<>>
    /\ pc' = "loop"
    /\ UNCHANGED <<file, rules, ri, ci, result, trace>>

\* if not cols: continue
SkipNoColumns ==
    /\ AtRule
    /\ cols = <<>>
    /\ ri' = ri + 1
    /\ ci' = 1
    /\ trace' = Append(trace, [rule |-> ri, col |-> 0, outcome |-> "no_columns"])
    /\ UNCHANGED <<file, rules, frames, df, log, pc, result>>

\* if col not in df.columns: continue
SkipMissingColumn ==
    /\ AtPair
    /\ ~ColumnPresent
    /\ ri' = NextPair[1] /\ ci' = NextPair[2]
    /\ Visit("missing_column")
    /\ UNCHANGED <<file, rules, frames, df, log, pc, result>>

\* The handler returned or raised: the loops go on, or apply_rules ends
Handled(out) ==
    /\ frames' = [frames EXCEPT ![df] = out.frame]
    /\ log' = out.log
    /\ IF out.raised
       THEN pc' = "raised" /\ UNCHANGED <<ri, ci>> /\ Visit("raised")
       ELSE pc' = pc /\ ri' = NextPair[1] /\ ci' = NextPair[2] /\ Visit("handled")
    /\ UNCHANGED <<file, rules, df, result>>

ApplyAnomalyFlag ==
    /\ AtPair
    /\ ColumnPresent
    /\ rule_type = ANOMALY_FLAG
    /\ Handled(_apply_anomaly_flag(frames[df], col, pattern, rule_id,
                    description, reasoning, flag_on_match, log))

ApplyImputation ==
    /\ AtPair
    /\ ColumnPresent
    /\ rule_type = IMPUTATION
    /\ \E inplace \in BOOLEAN :
            Handled(_apply_imputation(frames[df], col, pattern, replacement,
                        rule_id, description, reasoning, log, inplace))

ApplyFormatString ==
    /\ AtPair
    /\ ColumnPresent
    /\ rule_type = FORMAT_STRING
    /\ Handled(_apply_format_string(frames[df], col, pattern, replacement,
                    rule_id, description, reasoning, log))

ApplyTransformation ==
    /\ AtPair
    /\ ColumnPresent
    /\ rule_type = TRANSFORMATION
    /\ Handled(_apply_transformation(frames[df], col, pattern, replacement,
                    rule_id, description, reasoning, log))

\* The else branch of the dispatch: a warning, and the loop goes on
SkipUnknownType ==
    /\ AtPair
    /\ ColumnPresent
    /\ rule_type \notin RuleType
    /\ ri' = NextPair[1] /\ ci' = NextPair[2]
    /\ Visit("unknown_type")
    /\ UNCHANGED <<file, rules, frames, df, log, pc, result>>

\* return df, log
Return ==
    /\ pc = "loop"
    /\ ri > Len(rules)
    /\ pc' = "returned"
    /\ result' = <<df, log>>
    /\ UNCHANGED <<file, rules, frames, df, log, ri, ci, trace>>

Next ==
    \/ Call
    \/ SkipNoColumns
    \/ SkipMissingColumn
    \/ ApplyAnomalyFlag
    \/ ApplyImputation
    \/ ApplyFormatString
    \/ ApplyTransformation
    \/ SkipUnknownType
    \/ Return

Spec == Init /\ [][Next]_vars

-----------------------------------------------------------------------------
(* The constructor: RuleApplier(rules_path) reads the rules file.  Its    *)
(* specification starts before the constructor ran.                       *)

\* RuleApplier._load_rules: open() raises FileNotFoundError, json.load
\* raises JSONDecodeError, payload["rules"] raises KeyError
_load_rules(path) ==
    IF ~path.exists
    THEN [raised |-> TRUE, error |-> "FileNotFoundError", rules |-> <<>>]
    ELSE IF ~path.json
    THEN [raised |-> TRUE, error |-> "JSONDecodeError", rules |-> <<>>]
    ELSE IF "rules" \notin DOMAIN path.doc
    THEN [raised |-> TRUE, error |-> "KeyError", rules |-> <<>>]
    ELSE [raised |-> FALSE, error |-> "", rules |-> path.doc.rules]

InitLoad ==
    /\ file \in Files
    /\ rules = <<>>
    /\ frames = (Caller :> MakeFrame(<<>>, {}))
    /\ df = Caller
    /\ log = <<>>
    /\ ri = 1
    /\ ci = 1
    /\ pc = "new"
    /\ result = <<>>
    /\ trace = <<>>

\* RuleApplier.__init__ returns: self.rules is what _load_rules returned
Construct ==
    /\ pc = "new"
    /\ ~_load_rules(file).raised
    /\ rules' = _load_rules(file).rules
    /\ pc' = "idle"
    /\ UNCHANGED <<file, frames, df, log, ri, ci, result, trace>>

\* RuleApplier.__init__ raises what _load_rules raised: no object is made
ConstructRaises ==
    /\ pc = "new"
    /\ _load_rules(file).raised
    /\ pc' = _load_rules(file).error
    /\ UNCHANGED <<file, rules, frames, df, log, ri, ci, result, trace>>

NextLoad ==
    \/ Construct
    \/ ConstructRaises

SpecLoad == InitLoad /\ [][NextLoad]_vars

-----------------------------------------------------------------------------
(* Properties *)

\* The rule and the column name of the k-th visited pair
TraceRule(k) == rules[trace[k].rule]
TraceCol(k) == Get(TraceRule(k), "columns", <<>>)[trace[k].col]
TraceType(k) == Lower(Get(TraceRule(k), "rule_type", "transformation"))

\* The DataFrame apply_rules returned
Returned == frames[result[1]]

\* C1: apply_rules never changes its inputs: no step changes the caller's
\* DataFrame or the rule sequence, and once called the engine works on a
\* DataFrame that is not the caller's.
C1_InputsUnchanged ==
    /\ [](pc # "idle" => df # Caller)
    /\ [][frames'[Caller] = frames[Caller] /\ rules' = rules]_vars

\* C1 witness: apply_rules returned a DataFrame that differs from the
\* caller's, which is as it was.
C1_Witness == pc = "returned" /\ Returned # frames[Caller]

\* The pairs the loops are to visit: (rule, column index), and (rule, 0)
\* for a rule without columns
Positions ==
    UNION { LET n == Len(Get(rules[r], "columns", <<>>))
            IN  IF n = 0 THEN {<<r, 0>>} ELSE {<<r, c>> : c \in 1..n}
            : r \in 1..Len(rules) }

PositionsBefore(p) ==
    {q \in Positions : q[1] < p[1] \/ (q[1] = p[1] /\ q[2] < p[2])}

\* The columns the working DataFrame has when the k-th pair is visited:
\* those of the input and the flag columns of the anomaly_flag pairs
\* handled before it
ColumnsBefore(k) ==
    Columns(frames[Caller]) \cup
    { FlagCol(TraceCol(j), TraceRule(j).rule_id) :
        j \in {j \in 1..(k - 1) :
                trace[j].outcome = "handled" /\ TraceType(j) = ANOMALY_FLAG} }

\* C2: the pairs are visited in rule-list order and, within a rule, in the
\* listed order of its columns, none left out; and each pair is decided on
\* the DataFrame as the earlier pairs left it: it is skipped as a missing
\* column exactly when the column is neither in the input nor a flag
\* column made by an earlier pair.
C2_InOrder ==
    \A k \in DOMAIN trace :
        LET p == <<trace[k].rule, trace[k].col>>
        IN  /\ p \in Positions
            /\ Cardinality(PositionsBefore(p)) = k - 1
            /\ p[2] > 0 =>
                (trace[k].outcome = "missing_column"
                    <=> TraceCol(k) \notin ColumnsBefore(k))

\* C2 witness: a pair on a flag column made by an earlier rule was handled.
C2_Witness ==
    \E k \in DOMAIN trace :
        /\ trace[k].col > 0
        /\ trace[k].outcome = "handled"
        /\ TraceCol(k) \notin Columns(frames[Caller])

\* The loops moved from the pair they were at to the next one
MovedOn ==
    IF ci < Len(cols) THEN ri' = ri /\ ci' = ci + 1
    ELSE ri' = ri + 1 /\ ci' = 1

\* The pair is passed over: no exception, no log entry, no change to any
\* DataFrame, and the loops go on
PassedOver ==
    /\ pc' = "loop"
    /\ log' = log
    /\ frames' = frames
    /\ result' = result
    /\ MovedOn

\* C3 as stated: a pair whose column is absent, or whose rule_type is not
\* one of the four type names, is passed over.
C3_Original ==
    [][(AtPair /\ (col \notin Columns(frames[df])
                    \/ Get(rule, "rule_type", "transformation") \notin RuleType))
        => PassedOver]_vars

\* C3 amended: a pair whose column is absent, or whose rule_type in lower
\* case is not one of the four type names, is passed over.
C3_Skip ==
    [][(AtPair /\ (col \notin Columns(frames[df]) \/ rule_type \notin RuleType))
        => PassedOver]_vars

\* C3 witness: after a pair of an unknown type and a pair on a missing
\* column, a later pair was handled.
C3_Witness ==
    \E i \in DOMAIN trace, j \in DOMAIN trace, k \in DOMAIN trace :
        /\ i < k /\ j < k
        /\ trace[i].outcome = "unknown_type"
        /\ trace[j].outcome = "missing_column"
        /\ trace[k].outcome = "handled"

\* The visited pairs that were dispatched to a handler that returned
HandledPairs == {k \in DOMAIN trace : trace[k].outcome = "handled"}

C5_Original ==
    (pc = "returned" /\ IsEmpty(frames[Caller]))
        => (IsEmpty(Returned) /\ result[2] = <<>>)

\* C5 amended: on a DataFrame without columns apply_rules always returns,
\* and returns an empty DataFrame and an empty log; on a DataFrame without
\* rows the DataFrame it returns is empty (its log has an entry for every
\* pair handled).
C5_EmptyFrame ==
    /\ Columns(frames[Caller]) = {} =>
        /\ pc # "raised"
        /\ log = <<>>
        /\ pc = "returned" => (IsEmpty(Returned) /\ result[2] = <<>>)
    /\ (pc = "returned" /\ IsEmpty(frames[Caller])) => IsEmpty(Returned)

\* C5 witness: apply_rules returned on a DataFrame without columns after
\* visiting the pairs of a full rule list.
C5_Witness ==
    /\ pc = "returned"
    /\ Columns(frames[Caller]) = {}
    /\ Len(rules) = MaxRules
    /\ \E k \in DOMAIN trace : trace[k].outcome = "missing_column"

\* C6: with an empty rule list apply_rules returns a DataFrame equal to
\* the input and an empty log.
C6_NoRules ==
    (pc = "returned" /\ rules = <<>>)
        => (Returned = frames[Caller] /\ result[2] = <<>>)

\* C6 witness: apply_rules returned for an empty rule list and a DataFrame
\* that has rows and columns.
C6_Witness == pc = "returned" /\ rules = <<>> /\ ~IsEmpty(frames[Caller])

\* C7: a transformation pair with an invalid pattern whose column is
\* present makes apply_rules raise: nothing is returned, nothing is
\* logged for the pair, and no step follows.
C7_InvalidRegexAborts ==
    /\ [](pc = "raised" => result = <<>>)
    /\ [][/\ (AtPair /\ col \in Columns(frames[df])
                /\ rule_type = TRANSFORMATION /\ pattern.kind = "invalid")
                => (pc' = "raised" /\ log' = log /\ ri' = ri /\ ci' = ci)
          /\ pc # "raised"]_vars

\* C7 witness: apply_rules raised at a transformation pair with an invalid
\* pattern, after an earlier pair was handled.
C7_Witness ==
    /\ pc = "raised"
    /\ rule_type = TRANSFORMATION
    /\ pattern.kind = "invalid"
    /\ \E k \in DOMAIN trace : trace[k].outcome = "handled"

\* C8 as stated: apply_rules raises only at a pair whose pattern is an
\* invalid regular expression; with valid patterns everywhere it returns.
C8_Original == pc = "raised" => pattern.kind = "invalid"

\* C9: after a general anomaly_flag pair (rule_id is not the reserved one)
\* the flag column holds, for every row, whether the text of the cell
\* matches the pattern at its start when flag_on_match is true, and the
\* negation when it is false or absent; a missing value is matched by its
\* text like any other.
C9_GeneralFlag ==
    [][(AtPair /\ col \in Columns(frames[df]) /\ rule_type = ANOMALY_FLAG
            /\ rule_id # TotalSpentMismatch /\ pc' = "loop")
        => LET before == frames[df]
               after == frames'[df]
               flag_col == FlagCol(col, rule_id)
           IN  /\ flag_col \in Columns(after)
               /\ \A i \in Rows(before) :
                    LET m == ReMatch(pattern, Text(before.data[col][i]))
                    IN  after.data[flag_col][i] =
                            Bool(IF Get(rule, "flag_on_match", FALSE) = TRUE
                                 THEN m ELSE ~m)]_vars

\* C9 witness: the flags of the test fixture (the missing Item is flagged
\* on match), and a Category that only holds the pattern further in is
\* flagged as not matching.
C9_Witness ==
    /\ pc = "returned"
    /\ {FlagCol(Item, "flag_missing_item"), FlagCol(Category, "flag_not_food")}
            \subseteq Columns(Returned)
    /\ frames[Caller].data[Item] = <<Str("B"), None>>
    /\ Returned.data[FlagCol(Item, "flag_missing_item")] = <<Bool(FALSE), Bool(TRUE)>>
    /\ frames[Caller].data[Category] = <<Str("seafood"), Str("Food")>>
    /\ Returned.data[FlagCol(Category, "flag_not_food")] = <<Bool(TRUE), Bool(TRUE)>>

\* C10 as stated: after a pair of the reserved rule flag_total_spent_mismatch,
\* whatever column it is on, a row is flagged exactly when Price Per Unit,
\* Quantity and Total Spent are present and
\* abs(round(Price Per Unit * Quantity, 2) - Total Spent) > 0.01.
C10_Original ==
    [][(AtPair /\ col \in Columns(frames[df]) /\ rule_type = ANOMALY_FLAG
            /\ rule_id = TotalSpentMismatch /\ pc' = "loop"
            /\ TotalSpent \in Columns(frames[df]))
        => LET before == frames[df]
               after == frames'[df]
           IN  \A i \in Rows(before) :
                LET price == before.data[PricePerUnit][i]
                    qty == before.data[Quantity][i]
                    total == before.data[TotalSpent][i]
                IN  after.data[FlagCol(col, rule_id)][i] =
                        Bool(/\ notna(price) /\ notna(qty) /\ notna(total)
                             /\ Abs(Minus(Round2(Mul(price, qty)), total)).n > tol)]_vars

\* The values of the cells of column c, row by row
Cells(frame, c) == frame.data[c]

\* C11: an anomaly_flag pair on column c (the reserved rule included)
\* writes nothing but the column c_flag_<rule_id>: column c and every
\* other column the working DataFrame had keep their cells in every row,
\* and no column but the flag column is added or removed.
C11_FlagWritesOnlyFlagColumn ==
    [][(AtPair /\ col \in Columns(frames[df]) /\ rule_type = ANOMALY_FLAG)
        => LET before == frames[df]
               after == frames'[df]
               flag_col == col \o "_flag_" \o rule_id
           IN  /\ Cells(after, col) = Cells(before, col)
               /\ \A c \in Columns(before) \ {flag_col} :
                    Cells(after, c) = Cells(before, c)
               /\ Columns(after) \subseteq Columns(before) \cup {flag_col}
               /\ after.nrows = before.nrows
               /\ pc' = "loop" => flag_col \in Columns(after)]_vars

\* C11 witness: apply_rules returned after the general rule flagged a row
\* of Item and the reserved rule flagged a row of Total Spent, and the
\* returned DataFrame holds the input's columns as they were, and the two
\* flag columns.
C11_Witness ==
    /\ pc = "returned"
    /\ Columns(Returned) =
            AllColumns \cup {FlagCol(Item, "flag_missing_item"),
                             FlagCol(TotalSpent, TotalSpentMismatch),
                             FlagCol(Quantity, TotalSpentMismatch)}
    /\ \A c \in AllColumns : Cells(Returned, c) = Cells(frames[Caller], c)
    /\ \E i \in Rows(Returned) :
            Cells(Returned, FlagCol(Item, "flag_missing_item"))[i] = Bool(TRUE)
    /\ \E i \in Rows(Returned) :
            Cells(Returned, FlagCol(TotalSpent, TotalSpentMismatch))[i] = Bool(TRUE)

\* At a pair of an imputation rule whose column is present
AtImputation == AtPair /\ col \in Columns(frames[df]) /\ rule_type = IMPUTATION

\* The rows of the working DataFrame the imputation rule identifies as
\* missing: the text of the cell in the target column matches the pattern
Missing(i) == ReMatch(pattern, Text(Cells(frames[df], col)[i]))

\* C12 as stated: an imputation pair, whatever its replacement, changes
\* only the rows of the target column whose text matches the pattern:
\* every other row of the target column and every other column keep their
\* cells.
C12_Original ==
    [][AtImputation
        => LET before == frames[df]
               after == frames'[df]
           IN  /\ Columns(after) = Columns(before)
               /\ \A c \in Columns(before) \ {col} :
                    Cells(after, c) = Cells(before, c)
               /\ \A i \in Rows(before) :
                    ~Missing(i) => Cells(after, col)[i] = Cells(before, col)[i]]_vars

\* C13: after an imputation pair with the product sentinel, a row
\* identified as missing whose Price Per Unit and Quantity are both
\* present holds Price Per Unit * Quantity, not rounded; a row identified
\* as missing with a missing operand holds the cell it held before.
C13_ProductSentinel ==
    [][(AtImputation /\ replacement = "[Price Per Unit] * [Quantity]"
            /\ pc' = "loop")
        => LET before == frames[df]
               after == frames'[df]
           IN  \A i \in Rows(before) :
                Missing(i) =>
                    LET price == Cells(before, PricePerUnit)[i]
                        qty == Cells(before, Quantity)[i]
                        cell == Cells(after, col)[i]
                    IN  IF notna(price) /\ notna(qty)
                        THEN /\ cell.kind = "num"
                             /\ cell.n * 1000 = price.n * qty.n
                        ELSE cell = Cells(before, col)[i]]_vars

\* C13 witness: of two rows without Total Spent, the one with both
\* operands was given 15.753 * 3 = 47.259 and the one without Quantity
\* was left missing.
C13_Witness ==
    /\ pc = "returned"
    /\ \E k \in HandledPairs : TraceRule(k).replacement = ProductSentinel
    /\ Cells(frames[Caller], PricePerUnit) = <<Num(15753), Num(12000)>>
    /\ Cells(frames[Caller], Quantity) = <<Num(3000), NaN>>
    /\ Cells(frames[Caller], TotalSpent) = <<NaN, NaN>>
    /\ Cells(Returned, TotalSpent) = <<Num(47259), NaN>>

\* The median of the target column within the Item group of row i of the
\* DataFrame: missing when there is no Item column, when the Item of the
\* row is missing and when the group holds no value
GroupMedian(frame, c, i) ==
    IF Item \in Columns(frame) /\ notna(Cells(frame, Item)[i])
    THEN Median(Cells(frame, c),
                {j \in Rows(frame) : Cells(frame, Item)[j] = Cells(frame, Item)[i]})
    ELSE NaN

\* The medians of the whole target column: of the column as the pair found
\* it, and of the column once the rows identified as missing hold their
\* group medians
GlobalMedians(frame, c) ==
    LET cells == Cells(frame, c)
        grouped ==
            [i \in Rows(frame) |->
                IF Missing(i) /\ Item \in Columns(frame)
                THEN GroupMedian(frame, c, i) ELSE cells[i]]
    IN  {Median(cells, Rows(frame)), Median(grouped, Rows(frame))}

\* C14 as stated: after an imputation pair with the median sentinel, a
\* row identified as missing holds the median of its Item group when
\* there is an Item column and the group has a median, and the median of
\* the whole column otherwise.
C14_Original ==
    [][(AtImputation /\ replacement = "<MEDIAN_FROM_GROUP_OR_GLOBAL>"
            /\ pc' = "loop")
        => LET before == frames[df]
               after == frames'[df]
           IN  \A i \in Rows(before) :
                Missing(i) =>
                    IF notna(GroupMedian(before, col, i))
                    THEN Cells(after, col)[i] = GroupMedian(before, col, i)
                    ELSE Cells(after, col)[i] \in GlobalMedians(before, col)]_vars

\* C15: after an imputation pair whose replacement is neither sentinel,
\* every row identified as missing holds the replacement itself, as text.
C15_LiteralReplacement ==
    [][(AtImputation /\ pc' = "loop"
            /\ replacement \notin {"[Price Per Unit] * [Quantity]",
                                   "<MEDIAN_FROM_GROUP_OR_GLOBAL>"})
        => \A i \in Rows(frames[df]) :
                Missing(i) =>
                    LET cell == Cells(frames'[df], col)[i]
                    IN  cell.kind = "str" /\ cell.s = replacement]_vars

\* C15 witness: the missing Item of the fixture was given the text
\* "False", not the boolean.
C15_Witness ==
    /\ pc = "returned"
    /\ \E k \in HandledPairs : TraceRule(k).rule_id = "impute_item"
    /\ Cells(frames[Caller], Item) = <<Str("B"), None>>
    /\ Cells(Returned, Item)[1] = [kind |-> "str", n |-> 0, s |-> "B"]
    /\ Cells(Returned, Item)[2] = [kind |-> "str", n |-> 0, s |-> "False"]
    /\ Cells(Returned, Item)[2] # Bool(FALSE)

\* The entry the step appended to the log
Appended == log'[Len(log')]

\* C16: the count of a log entry is the size of the row mask of its
\* handler: flagged_count is the number of rows the pair set to True in
\* the flag column, and imputed_count is the number of rows whose text
\* matched the pattern when the pair was applied, filled or not.
C16_Counts ==
    [][(AtPair /\ col \in Columns(frames[df]) /\ pc' = "loop")
        => /\ rule_type = ANOMALY_FLAG =>
                /\ Len(log') = Len(log) + 1
                /\ Appended.flagged_count =
                    Cardinality({i \in Rows(frames'[df]) :
                        Cells(frames'[df], col \o "_flag_" \o rule_id)[i]
                            = Bool(TRUE)})
           /\ rule_type = IMPUTATION =>
                /\ Len(log') = Len(log) + 1
                /\ Appended.imputed_count =
                    Cardinality({i \in Rows(frames[df]) : Missing(i)})]_vars

\* C16 witness: one of two Items was flagged as missing (flagged_count 1),
\* and two rows without Total Spent were counted (imputed_count 2) though
\* only one of them was filled.
C16_Witness ==
    /\ pc = "returned"
    /\ Len(result[2]) = 2
    /\ Columns(frames[Caller]) = AllColumns
    /\ result[2][1].rule_id = "flag_missing_item"
    /\ result[2][1].flagged_count = 1
    /\ Cells(Returned, FlagCol(Item, "flag_missing_item")) = <<Bool(TRUE), Bool(FALSE)>>
    /\ result[2][2].type = "imputation"
    /\ result[2][2].imputed_count = 2
    /\ Cells(frames[Caller], TotalSpent) = <<NaN, NaN>>
    /\ Cells(Returned, TotalSpent) = <<Num(47259), NaN>>

\* At a pair of a format_string rule whose column is present
AtFormatString ==
    AtPair /\ col \in Columns(frames[df]) /\ rule_type = FORMAT_STRING

\* C17 as stated: a format_string pair does one of three things.  (a) When
\* the replacement contains "%", every present value becomes the number
\* the format makes of it and a missing value stays as it is, whatever the
\* pattern.  (b) Otherwise, when there is a pattern, every value becomes
\* the substitution of its text.  (c) Otherwise every value, missing or
\* not, becomes the text the format makes of it.
C17_Original ==
    [][AtFormatString
        => LET before == Cells(frames[df], col)
               after == Cells(frames'[df], col)
           IN  \A i \in Rows(frames[df]) :
                IF HasPercent(replacement)
                THEN IF notna(before[i])
                     THEN /\ ~FloatRaises(before[i])
                          /\ after[i] = Round2(Float(before[i]))
                     ELSE after[i] = before[i]
                ELSE IF "pattern" \in DOMAIN rule
                THEN after[i] = Str(ReSub(pattern, replacement, Text(before[i])))
                ELSE after[i].kind = "str"]_vars

\* The formatting of a format_string pair raises: a present value that
\* float() does not take, a pattern that does not compile, or a
\* replacement without directive used as a format
FormatFails ==
    LET cells == Cells(frames[df], col)
    IN  IF HasPercent(replacement)
        THEN \E i \in Rows(frames[df]) :
                cells[i].kind = "str" /\ FloatRaises(cells[i])
        ELSE IF "pattern" \in DOMAIN rule THEN pattern.kind = "invalid"
        ELSE Rows(frames[df]) # {}

\* C18: a format_string pair whose formatting raises does not end
\* apply_rules: the entry of the pair, of type format_string, is appended
\* to the log, and the loops go on to the next pair.
C18_FormatFailureCaught ==
    [][(AtFormatString /\ FormatFails)
        => /\ pc' = "loop"
           /\ Len(log') = Len(log) + 1
           /\ SubSeq(log', 1, Len(log)) = log
           /\ Appended.rule_id = rule_id
           /\ Appended.column = col
           /\ Appended.type = "format_string"
           /\ MovedOn]_vars

\* C18 witness: "%.2f" rounded Price Per Unit and then failed on the text
\* of Category, which it left as it was; both pairs were logged, a later
\* rule was handled, and apply_rules returned.
C18_Witness ==
    /\ pc = "returned"
    /\ Len(rules) = 2
    /\ rules[1].rule_id = "round_price"
    /\ Columns(frames[Caller]) = AllColumns
    /\ Cells(frames[Caller], Category) = <<Str("seafood"), Str("Food")>>
    /\ Cells(Returned, Category) = Cells(frames[Caller], Category)
    /\ Cells(Returned, PricePerUnit) = <<Num(20000), Num(15750)>>
    /\ Len(result[2]) = 3
    /\ result[2][2].rule_id = "round_price"
    /\ result[2][2].column = Category
    /\ result[2][2].type = "format_string"
    /\ result[2][3].rule_id = rules[2].rule_id

\* The pattern occurs somewhere in the text
Occurs(p, t) ==
    CASE p.kind = "alt" -> t \in p.lits
      [] p.kind = "any" -> TRUE
      [] p.kind = "lit" ->
            \E l \in p.lits : \E a \in Fragments, b \in Fragments :
                t = a \o l \o b
      [] OTHER -> FALSE

\* C19: after a transformation pair every cell of the column is a text:
\* the text of the cell it was, with every occurrence of the pattern
\* replaced by the replacement (group references expanded).  Where the
\* pattern does not occur the text is the text of the cell it was; a
\* missing value is taken by its text and is no longer missing.  No other
\* column changes.
C19_Transformation ==
    [][(AtPair /\ col \in Columns(frames[df]) /\ rule_type = TRANSFORMATION
            /\ pc' = "loop")
        => LET before == frames[df]
               after == frames'[df]
           IN  /\ Columns(after) = Columns(before)
               /\ \A c \in Columns(before) \ {col} :
                    Cells(after, c) = Cells(before, c)
               /\ \A i \in Rows(before) :
                    LET old == Cells(before, col)[i]
                        new == Cells(after, col)[i]
                    IN  /\ new.kind = "str"
                        /\ notna(new)
                        /\ new.s = ReSub(pattern, replacement, Text(old))
                        /\ ~Occurs(pattern, Text(old)) => new.s = Text(old)
                        /\ old.kind = "nan" =>
                            new.s = (IF Occurs(pattern, "nan")
                                     THEN Expand(replacement, "nan")
                                     ELSE "nan")]_vars

\* C19 witness: "food" became "Food" and the missing Category became the
\* text "nan"; the other columns are as they were.
C19_Witness ==
    /\ pc = "returned"
    /\ Len(rules) = 1
    /\ rules[1].rule_id = "fix_food"
    /\ Columns(frames[Caller]) = AllColumns
    /\ Cells(frames[Caller], Category) = <<Str("food"), NaN>>
    /\ Cells(Returned, Category) =
            << [kind |-> "str", n |-> 0, s |-> "Food"],
               [kind |-> "str", n |-> 0, s |-> "nan"] >>
    /\ \A c \in AllColumns \ {Category} :
            Cells(Returned, c) = Cells(frames[Caller], c)

\* A record that violates a required-field constraint: it has no rule_id,
\* or no columns, or an empty list of columns
Violates(record) ==
    \/ "rule_id" \notin DOMAIN record
    \/ "columns" \notin DOMAIN record
    \/ record.columns = <<>>

\* C20 as stated: the constructor fails when there is no file, when the
\* document has no "rules" list, and when a record of the list violates a
\* required-field constraint; a Rule Store that was constructed holds the
\* records of the file in their order, none of them violating.
C20_Original ==
    /\ pc # "new" =>
        (pc = "idle" <=>
            /\ file.exists
            /\ file.json
            /\ "rules" \in DOMAIN file.doc
            /\ \A k \in DOMAIN file.doc.rules : ~Violates(file.doc.rules[k]))
    /\ pc = "idle" =>
        /\ rules = file.doc.rules
        /\ \A k \in DOMAIN rules : ~Violates(rules[k])

\* The names a flag column may have: <column>_flag_<rule_id> for a rule of
\* the rule list that is dispatched as anomaly_flag and a column it lists
FlagNames ==
    UNION { { Get(rules[r], "columns", <<>>)[c] \o "_flag_" \o rules[r].rule_id :
                c \in DOMAIN Get(rules[r], "columns", <<>>) } :
            r \in {r \in DOMAIN rules :
                    Lower(Get(rules[r], "rule_type", "transformation"))
                        = "anomaly_flag"} }

\* The columns some handled pair of the trace was applied to
Targeted == {TraceCol(k) : k \in {k \in HandledPairs : trace[k].col > 0}}

\* C21: whatever pairs were applied, the working DataFrame has the rows of
\* the input, as many and in their order (every column is a sequence over
\* the same row positions, and a column no pair was applied to holds the
\* cells of the input row by row); it has every column of the input; and
\* a column it has besides is named <column>_flag_<rule_id> for an
\* anomaly_flag rule of the rule list and a column that rule lists.
C21_Shape ==
    LET input == frames[Caller]
        working == frames[df]
    IN  /\ working.nrows = input.nrows
        /\ \A c \in Columns(working) : DOMAIN Cells(working, c) = Rows(input)
        /\ Columns(input) \subseteq Columns(working)
        /\ \A c \in Columns(input) \ Targeted :
                Cells(working, c) = Cells(input, c)
        /\ Columns(working) \ Columns(input) \subseteq FlagNames

\* C21 witness: apply_rules returned after an imputation filled a cell and
\* an anomaly_flag rule added its column: two rows as in the input, the
\* columns of the input and the flag column.
C21_Witness ==
    /\ pc = "returned"
    /\ Len(rules) = 2
    /\ rules[1].rule_id = "impute_total_spent"
    /\ rules[2].rule_id = "flag_missing_item"
    /\ frames[Caller].nrows = 2
    /\ Returned.nrows = 2
    /\ Columns(frames[Caller]) = AllColumns
    /\ Columns(Returned) = AllColumns \cup {"Item_flag_flag_missing_item"}
    /\ Cells(Returned, TotalSpent) # Cells(frames[Caller], TotalSpent)
    /\ Cells(Returned, Item) = Cells(frames[Caller], Item)

\* C22: a format_string pair whose formatting raises on some value leaves
\* every DataFrame as it was: no cell of the column is formatted, not even
\* one the format could have been applied to.
C22_FormatFailureAtomic ==
    [][(AtFormatString /\ FormatFails) => frames' = frames]_vars

\* C22 witness: "%.2f" was applied to a Category of texts of which "nan"
\* is one float() takes and "food" is not; both cells are the texts they
\* were, and the pair is in the log.
C22_Witness ==
    /\ pc = "returned"
    /\ Len(rules) = 2
    /\ rules[1].rule_id = "normalize_category"
    /\ rules[2].rule_id = "round_price"
    /\ Columns(frames[Caller]) = AllColumns
    /\ Cells(frames[Caller], Category) = <<Str("food"), NaN>>
    /\ Cells(Returned, Category) = <<Str("food"), Str("nan")>>
    /\ Len(result[2]) = 3
    /\ result[2][3].type = "format_string"
    /\ result[2][3].column = Category

=============================================================================
